---- MODULE Spec2Model ----
(***************************************************************************)
(* Model of the HTTP routing layer of the Mini E-Commerce API              *)
(* (src/app/main.py).  Every route handler is an action translated from    *)
(* its code.  The persistence functions (crud), the table definitions     *)
(* (models) and the guards (auth) are called by main.py but are not       *)
(* part of src/; they are modelled from the design document and carry the  *)
(* prefix crud_/db_ or the guard's name.                                   *)
(*                                                                         *)
(* A request that needs two persistence round trips with a decision in     *)
(* between (look up, then insert) is two steps: the first leaves a record  *)
(* in `inflight`, the second completes it.  Requests of other clients may  *)
(* run between the two steps; nothing in main.py locks.                    *)
(***************************************************************************)
EXTENDS Integers, FiniteSets, Sequences, Bags, TLC

VARIABLES
    users,       \* table User:      [id, email, role]
    products,    \* table Product:   [id, seller_id, price]
    carts,       \* table Cart:      [id, user_id]
    cart_items,  \* table CartItem:  [id, cart_id, product_id, quantity]
    orders,      \* table Order:     [id, user_id, items, src]
    wishlist,    \* table Wishlist:  [id, user_id, product_id]
    seq,         \* the tables' primary-key sequences
    inflight,    \* bag of requests between their two steps
    resp         \* the response the last step sent (op "none": it sent none)

vars == <<users, products, carts, cart_items, orders, wishlist, seq, inflight, resp>>

db == <<users, products, carts, cart_items, orders, wishlist, seq>>

(***************************************************************************)
(* Bounds of the model.                                                    *)
(***************************************************************************)
MaxUserId == 2
MaxProductId == 2
MaxItemId == 1
MaxOrderId == 2
MaxWishId == 1
MaxQty == 2
MaxInFlight == 2

\* Python's None for a nullable id, and for an optional string of a request body
None == 0
NoneStr == "None"

Roles == {"customer", "seller", "admin"}
RoleInputs == Roles \cup {"root"}
EmailInputs == {"a@x", "b@x"}
UserIds == 1..MaxUserId
ProductIds == 1..MaxProductId
Quantities == {1, 2}
Prices == {1, 2}

NoResp == [op |-> "none", cu |-> None, arg |-> None, status |-> 0, body |-> None]

Respond(op, cu, arg, status, body) ==
    resp' = [op |-> op, cu |-> cu, arg |-> arg, status |-> status, body |-> body]

Ids(table) == {row.id : row \in table}

MinId(rows) == CHOOSE i \in Ids(rows) : \A j \in Ids(rows) : i <= j

\* Query(...).first() of a query with rows: the row with the least primary key.
\* A query without rows gives None, which the handlers test as rows = {}.
First(rows) == CHOOSE row \in rows : row.id = MinId(rows)

NextId(table) == seq[table] + 1

Advance(table) == [seq EXCEPT ![table] = @ + 1]

InFlightCount == BagCardinality(inflight)

Begin(req) == inflight' = inflight (+) SetToBag({req})

End(req) == inflight' = inflight (-) SetToBag({req})

Request(op, cu, arg, body) == [op |-> op, cu |-> cu, arg |-> arg, body |-> body]

(***************************************************************************)
(* Guards (auth.py)                                                        *)
(***************************************************************************)
get_current_user == users

get_current_admin(current_user) == current_user.role = "admin"

get_current_seller(current_user) == current_user.role \in {"seller", "admin"}

NotOwnerNorAdmin(owner_id, current_user) ==
    owner_id # current_user.id /\ current_user.role # "admin"

(***************************************************************************)
(* Users                                                                   *)
(***************************************************************************)
crud_get_user_by_email(email) == {u \in users : u.email = email}

crud_get_user(user_id) == {u \in users : u.id = user_id}

\* User.email is unique: a row whose email another row holds is refused
db_email_unique(user_id, email) == \A u \in users : u.email = email => u.id = user_id

create_user_unchecked(db_user) == FALSE

\* main.py: if db_user: raise HTTPException(400)
create_user_registered(db_user) == db_user # {}

\* POST /users/: the lookup of the email
create_user(email, role) ==
    /\ UNCHANGED db
    /\ IF create_user_registered(crud_get_user_by_email(email))
       THEN /\ Respond("create_user", None, email, 400, None)
            /\ UNCHANGED inflight
       ELSE /\ InFlightCount < MaxInFlight
            /\ Begin(Request("create_user", None, email, [email |-> email, role |-> role]))
            /\ resp' = NoResp

\* POST /users/: crud.create_user inserts the row
create_user_insert(req) ==
    /\ req \in BagToSet(inflight)
    /\ req.op = "create_user"
    /\ End(req)
    /\ IF db_email_unique(None, req.body.email)
       THEN /\ seq["user"] < MaxUserId
            /\ users' = users \cup {[id |-> NextId("user"), email |-> req.body.email,
                                     role |-> req.body.role]}
            /\ seq' = Advance("user")
            /\ Respond("create_user", None, req.body.email, 201, NextId("user"))
       ELSE /\ Respond("create_user", None, req.body.email, 500, None)
            /\ UNCHANGED <<users, seq>>
    /\ UNCHANGED <<products, carts, cart_items, orders, wishlist>>

\* the row after crud.update_user(user, update): the fields the body sets
crud_update_user(user, update) ==
    [user EXCEPT !.email = IF update.email # NoneStr THEN update.email ELSE @,
                 !.role = IF update.role # NoneStr THEN update.role ELSE @]

UserUpdates == [email : {NoneStr} \cup EmailInputs, role : {NoneStr} \cup RoleInputs]

SaveUser(op, current_user, user, update) ==
    LET new == crud_update_user(user, update)
    IN  IF db_email_unique(user.id, new.email)
        THEN /\ users' = (users \ {user}) \cup {new}
             /\ Respond(op, current_user.id, user.id, 200, new)
        ELSE /\ Respond(op, current_user.id, user.id, 500, None)
             /\ UNCHANGED users

\* PUT /users/{user_id}
update_user(current_user, user_id, update) ==
    /\ current_user \in get_current_user
    /\ IF NotOwnerNorAdmin(user_id, current_user)
       THEN /\ Respond("update_user", current_user.id, user_id, 403, None)
            /\ UNCHANGED users
       ELSE LET db_user == crud_get_user(user_id)
            IN  IF db_user = {}
                THEN /\ Respond("update_user", current_user.id, user_id, 404, None)
                     /\ UNCHANGED users
                ELSE SaveUser("update_user", current_user, First(db_user), update)
    /\ UNCHANGED <<products, carts, cart_items, orders, wishlist, seq, inflight>>

\* DELETE /users/{user_id}
delete_user(current_user, user_id) ==
    /\ current_user \in get_current_user
    /\ IF NotOwnerNorAdmin(user_id, current_user)
       THEN /\ Respond("delete_user", current_user.id, user_id, 403, None)
            /\ UNCHANGED users
       ELSE IF crud_get_user(user_id) = {}
            THEN /\ Respond("delete_user", current_user.id, user_id, 404, None)
                 /\ UNCHANGED users
            ELSE /\ users' = users \ crud_get_user(user_id)
                 /\ Respond("delete_user", current_user.id, user_id, 200, None)
    /\ UNCHANGED <<products, carts, cart_items, orders, wishlist, seq, inflight>>

\* PUT /admin/users/{user_id}/role
admin_update_user_role(admin, user_id, update) ==
    /\ admin \in get_current_user
    /\ IF ~get_current_admin(admin)
       THEN /\ Respond("admin_update_user_role", admin.id, user_id, 403, None)
            /\ UNCHANGED users
       ELSE LET db_user == crud_get_user(user_id)
            IN  IF db_user = {}
                THEN /\ Respond("admin_update_user_role", admin.id, user_id, 404, None)
                     /\ UNCHANGED users
                ELSE IF update.role # NoneStr /\ update.role \notin Roles
                     THEN /\ Respond("admin_update_user_role", admin.id, user_id, 400, None)
                          /\ UNCHANGED users
                     ELSE SaveUser("admin_update_user_role", admin, First(db_user), update)
    /\ UNCHANGED <<products, carts, cart_items, orders, wishlist, seq, inflight>>

(***************************************************************************)
(* Products                                                                *)
(***************************************************************************)
\* POST /products/: a seller's product carries the seller's id
create_product(current_user, product) ==
    /\ current_user \in get_current_user
    /\ seq["product"] < MaxProductId
    /\ LET row == [id |-> NextId("product"),
                   seller_id |-> IF current_user.role = "seller"
                                 THEN current_user.id ELSE product.seller_id,
                   price |-> product.price]
       IN  /\ products' = products \cup {row}
           /\ Respond("create_product", current_user.id, None, 201, row)
    /\ seq' = Advance("product")
    /\ UNCHANGED <<users, carts, cart_items, orders, wishlist, inflight>>

\* crud.update_product's query: by id, and by seller when a seller_id is given
crud_update_product(product_id, seller_id) ==
    {p \in products : p.id = product_id /\ (seller_id = None \/ p.seller_id = seller_id)}

\* crud.delete_product's query: by id, and by seller when the role is seller
crud_delete_product(product_id, user_id, user_role) ==
    {p \in products : p.id = product_id /\ (user_role # "seller" \/ p.seller_id = user_id)}

SellerFilterNone(seller) == None

\* main.py: seller_id=seller.id if seller.role == "seller" else None
SellerFilter(seller) == IF seller.role = "seller" THEN seller.id ELSE None

\* PUT /seller/products/{product_id}
seller_update_product(seller, product_id, product_update) ==
    /\ seller \in get_current_user
    /\ IF ~get_current_seller(seller)
       THEN /\ Respond("seller_update_product", seller.id, product_id, 403, None)
            /\ UNCHANGED products
       ELSE LET found == crud_update_product(product_id, SellerFilter(seller))
                new == [First(found) EXCEPT !.price = product_update.price]
            IN  IF found = {}
                THEN /\ Respond("seller_update_product", seller.id, product_id, 404, None)
                     /\ UNCHANGED products
                ELSE /\ products' = (products \ found) \cup {new}
                     /\ Respond("seller_update_product", seller.id, product_id, 200, new)
    /\ UNCHANGED <<users, carts, cart_items, orders, wishlist, seq, inflight>>

DeleteProduct(op, user, product_id, missing) ==
    LET found == crud_delete_product(product_id, user.id, user.role)
    IN  IF found = {}
        THEN /\ Respond(op, user.id, product_id, missing, None)
             /\ UNCHANGED products
        ELSE /\ products' = products \ found
             /\ Respond(op, user.id, product_id, 200, None)

\* DELETE /seller/products/{product_id}
seller_delete_product(seller, product_id) ==
    /\ seller \in get_current_user
    /\ IF ~get_current_seller(seller)
       THEN /\ Respond("seller_delete_product", seller.id, product_id, 403, None)
            /\ UNCHANGED products
       ELSE DeleteProduct("seller_delete_product", seller, product_id, 404)
    /\ UNCHANGED <<users, carts, cart_items, orders, wishlist, seq, inflight>>

\* DELETE /admin/products/{product_id}
admin_delete_product(admin, product_id) ==
    /\ admin \in get_current_user
    /\ IF ~get_current_admin(admin)
       THEN /\ Respond("admin_delete_product", admin.id, product_id, 403, None)
            /\ UNCHANGED products
       ELSE DeleteProduct("admin_delete_product", admin, product_id, 404)
    /\ UNCHANGED <<users, carts, cart_items, orders, wishlist, seq, inflight>>

(***************************************************************************)
(* Cart                                                                    *)
(***************************************************************************)
crud_get_cart(user_id) == {c \in carts : c.user_id = user_id}

db_cart_not_unique(user_id) == TRUE

\* Cart.user_id is unique: a second cart of the same user is refused
db_cart_unique(user_id) == \A c \in carts : c.user_id # user_id

SameProduct(cart_id, product_id) ==
    {i \in cart_items : i.cart_id = cart_id /\ i.product_id = product_id}

\* the row crud.add_cart_item(cart_id, item) writes: the product's row with the
\* quantity added, or a new row
crud_add_cart_item(cart_id, product_id, quantity) ==
    IF SameProduct(cart_id, product_id) # {}
    THEN [First(SameProduct(cart_id, product_id)) EXCEPT !.quantity = @ + quantity]
    ELSE [id |-> NextId("cart_item"), cart_id |-> cart_id,
          product_id |-> product_id, quantity |-> quantity]

\* the model's bounds on the cart item sequence and on a quantity
AddFits(cart_id, product_id, quantity) ==
    IF SameProduct(cart_id, product_id) # {}
    THEN First(SameProduct(cart_id, product_id)).quantity + quantity <= MaxQty
    ELSE seq["cart_item"] < MaxItemId

AddItem(current_user_id, user_id, cart_id, product_id, quantity) ==
    LET item == crud_add_cart_item(cart_id, product_id, quantity)
    IN  /\ AddFits(cart_id, product_id, quantity)
        /\ cart_items' = (cart_items \ SameProduct(cart_id, product_id)) \cup {item}
        /\ Respond("add_item_to_cart", current_user_id, user_id, 200, item)

\* the user whose cart the cart handlers work on (main.py: user_id=current_user.id)
CartOwner(user_id, current_user_id) == current_user_id

\* GET /cart/{user_id}: authorisation and lookup
get_cart(current_user, user_id) ==
    /\ current_user \in get_current_user
    /\ UNCHANGED db
    /\ IF NotOwnerNorAdmin(user_id, current_user)
       THEN /\ Respond("get_cart", current_user.id, user_id, 403, None)
            /\ UNCHANGED inflight
       ELSE LET cart == crud_get_cart(CartOwner(user_id, current_user.id))
            IN  IF cart # {}
                THEN /\ Respond("get_cart", current_user.id, user_id, 200, First(cart).user_id)
                     /\ UNCHANGED inflight
                ELSE /\ InFlightCount < MaxInFlight
                     /\ Begin(Request("get_cart", current_user.id, user_id, None))
                     /\ resp' = NoResp

\* GET /cart/{user_id}: the lazy creation after a lookup that found no cart
get_cart_create(req) ==
    /\ req \in BagToSet(inflight)
    /\ req.op = "get_cart"
    /\ End(req)
    /\ LET owner == CartOwner(req.arg, req.cu)
       IN  IF db_cart_unique(owner)
           THEN /\ carts' = carts \cup {[id |-> NextId("cart"), user_id |-> owner]}
                /\ seq' = Advance("cart")
                /\ Respond("get_cart", req.cu, req.arg, 200, owner)
           ELSE /\ Respond("get_cart", req.cu, req.arg, 500, None)
                /\ UNCHANGED <<carts, seq>>
    /\ UNCHANGED <<users, products, cart_items, orders, wishlist>>

\* POST /cart/{user_id}/items: authorisation, lookup, and the add when the cart exists
add_item_to_cart(current_user, user_id, product_id, quantity) ==
    /\ current_user \in get_current_user
    /\ UNCHANGED <<users, products, carts, orders, wishlist>>
    /\ IF NotOwnerNorAdmin(user_id, current_user)
       THEN /\ Respond("add_item_to_cart", current_user.id, user_id, 403, None)
            /\ UNCHANGED <<cart_items, seq, inflight>>
       ELSE LET cart == crud_get_cart(CartOwner(user_id, current_user.id))
            IN  IF cart # {}
                THEN /\ AddItem(current_user.id, user_id, First(cart).id, product_id, quantity)
                     /\ seq' = IF SameProduct(First(cart).id, product_id) = {}
                               THEN Advance("cart_item") ELSE seq
                     /\ UNCHANGED inflight
                ELSE /\ InFlightCount < MaxInFlight
                     /\ Begin(Request("add_item_to_cart", current_user.id, user_id,
                                      [product_id |-> product_id, quantity |-> quantity]))
                     /\ resp' = NoResp
                     /\ UNCHANGED <<cart_items, seq>>

\* POST /cart/{user_id}/items: the lazy creation, then the add
add_item_to_cart_create(req) ==
    /\ req \in BagToSet(inflight)
    /\ req.op = "add_item_to_cart"
    /\ End(req)
    /\ LET owner == CartOwner(req.arg, req.cu)
       IN  IF db_cart_unique(owner)
           THEN /\ carts' = carts \cup {[id |-> NextId("cart"), user_id |-> owner]}
                /\ AddItem(req.cu, req.arg, NextId("cart"), req.body.product_id,
                           req.body.quantity)
                /\ seq' = [seq EXCEPT !["cart"] = @ + 1, !["cart_item"] = @ + 1]
           ELSE /\ Respond("add_item_to_cart", req.cu, req.arg, 500, None)
                /\ UNCHANGED <<carts, cart_items, seq>>
    /\ UNCHANGED <<users, products, orders, wishlist>>

ItemById(cart_item_id) == {i \in cart_items : i.id = cart_item_id}

CartById(cart_id) == First({c \in carts : c.id = cart_id})

\* the cart items after crud.update_cart_item(cart_item_id, quantity)
crud_update_cart_item(cart_item_id, quantity) ==
    {IF i.id = cart_item_id THEN [i EXCEPT !.quantity = quantity] ELSE i : i \in cart_items}

\* the cart items after crud.remove_cart_item(cart_item_id)
crud_remove_cart_item(cart_item_id) == {i \in cart_items : i.id # cart_item_id}

\* PUT /cart/items/{cart_item_id}: the update is committed, then the owner is checked
update_cart_item(current_user, cart_item_id, quantity) ==
    /\ current_user \in get_current_user
    /\ LET item == ItemById(cart_item_id)
       IN  IF item = {}
           THEN /\ Respond("update_cart_item", current_user.id, cart_item_id, 404, None)
                /\ UNCHANGED cart_items
           ELSE /\ cart_items' = crud_update_cart_item(cart_item_id, quantity)
                /\ IF NotOwnerNorAdmin(CartById(First(item).cart_id).user_id, current_user)
                   THEN Respond("update_cart_item", current_user.id, cart_item_id, 403, None)
                   ELSE Respond("update_cart_item", current_user.id, cart_item_id, 200, None)
    /\ UNCHANGED <<users, products, carts, orders, wishlist, seq, inflight>>

\* DELETE /cart/items/{cart_item_id}: the row is removed, then the owner is checked
delete_cart_item(current_user, cart_item_id) ==
    /\ current_user \in get_current_user
    /\ LET item == ItemById(cart_item_id)
       IN  IF item = {}
           THEN /\ Respond("delete_cart_item", current_user.id, cart_item_id, 404, None)
                /\ UNCHANGED cart_items
           ELSE /\ cart_items' = crud_remove_cart_item(cart_item_id)
                /\ IF NotOwnerNorAdmin(CartById(First(item).cart_id).user_id, current_user)
                   THEN Respond("delete_cart_item", current_user.id, cart_item_id, 403, None)
                   ELSE Respond("delete_cart_item", current_user.id, cart_item_id, 200, None)
    /\ UNCHANGED <<users, products, carts, orders, wishlist, seq, inflight>>

(***************************************************************************)
(* Orders                                                                  *)
(***************************************************************************)
LineItems(rows) == {[product_id |-> i.product_id, quantity |-> i.quantity] : i \in rows}

\* the rows of the cart of a user
CartRows(user_id) ==
    {i \in cart_items : \E c \in carts : c.id = i.cart_id /\ c.user_id = user_id}

\* the user whose cart becomes the order (main.py: user_id=current_user.id)
OrderOwner(user_id, current_user_id) == current_user_id

\* an order of an empty cart is refused as a bad request
crud_empty_cart_status == 400

\* POST /orders/?user_id=: authorisation, then crud.create_order_from_cart_for_user
\* reads the cart
create_order_read(current_user, user_id) ==
    /\ current_user \in get_current_user
    /\ UNCHANGED db
    /\ IF NotOwnerNorAdmin(user_id, current_user)
       THEN /\ Respond("create_order", current_user.id, user_id, 403, None)
            /\ UNCHANGED inflight
       ELSE LET rows == CartRows(OrderOwner(user_id, current_user.id))
            IN  IF rows = {}
                THEN /\ Respond("create_order", current_user.id, user_id,
                                crud_empty_cart_status, None)
                     /\ UNCHANGED inflight
                ELSE /\ InFlightCount < MaxInFlight
                     /\ Begin(Request("create_order", current_user.id, user_id, rows))
                     /\ resp' = NoResp

\* the handler as it would be if the orders of one cart were serialized
create_order_serialized(current_user, user_id) ==
    /\ \A req \in BagToSet(inflight) :
          ~(req.op = "create_order"
            /\ OrderOwner(req.arg, req.cu) = OrderOwner(user_id, current_user.id))
    /\ create_order_read(current_user, user_id)

create_order_from_cart(current_user, user_id) == create_order_read(current_user, user_id)

\* POST /orders/?user_id=: the order is inserted and the rows read are deleted, in one commit
create_order_commit(req) ==
    /\ req \in BagToSet(inflight)
    /\ req.op = "create_order"
    /\ seq["order"] < MaxOrderId
    /\ End(req)
    /\ orders' = orders \cup {[id |-> NextId("order"),
                               user_id |-> OrderOwner(req.arg, req.cu),
                               items |-> LineItems(req.body),
                               src |-> Ids(req.body)]}
    /\ cart_items' = {i \in cart_items : i.id \notin Ids(req.body)}
    /\ seq' = Advance("order")
    /\ Respond("create_order", req.cu, req.arg, 200, OrderOwner(req.arg, req.cu))
    /\ UNCHANGED <<users, products, carts, wishlist>>

crud_get_orders(user_id) == {o \in orders : o.user_id = user_id}

\* GET /orders/{user_id}
get_orders(current_user, user_id) ==
    /\ current_user \in get_current_user
    /\ IF NotOwnerNorAdmin(user_id, current_user)
       THEN Respond("get_orders", current_user.id, user_id, 403, None)
       ELSE Respond("get_orders", current_user.id, user_id, 200,
                    Ids(crud_get_orders(OrderOwner(user_id, current_user.id))))
    /\ UNCHANGED <<db, inflight>>

(***************************************************************************)
(* Wishlist                                                                *)
(***************************************************************************)
\* POST /wishlist/
add_to_wishlist_endpoint(current_user, product_id) ==
    /\ current_user \in get_current_user
    /\ seq["wishlist"] < MaxWishId
    /\ wishlist' = wishlist \cup {[id |-> NextId("wishlist"), user_id |-> current_user.id,
                                   product_id |-> product_id]}
    /\ seq' = Advance("wishlist")
    /\ Respond("add_to_wishlist", current_user.id, product_id, 201, NextId("wishlist"))
    /\ UNCHANGED <<users, products, carts, cart_items, orders, inflight>>

\* the wishlist after crud.remove_from_wishlist(wishlist_id)
crud_remove_from_wishlist(wishlist_id) == {w \in wishlist : w.id # wishlist_id}

\* DELETE /wishlist/{wishlist_id}: the row is removed, then the owner is checked
remove_wishlist_endpoint(current_user, wishlist_id) ==
    /\ current_user \in get_current_user
    /\ LET item == {w \in wishlist : w.id = wishlist_id}
       IN  IF item = {}
           THEN /\ Respond("remove_wishlist", current_user.id, wishlist_id, 404, None)
                /\ UNCHANGED wishlist
           ELSE /\ wishlist' = crud_remove_from_wishlist(wishlist_id)
                /\ IF NotOwnerNorAdmin(First(item).user_id, current_user)
                   THEN Respond("remove_wishlist", current_user.id, wishlist_id, 403, None)
                   ELSE Respond("remove_wishlist", current_user.id, wishlist_id, 204, None)
    /\ UNCHANGED <<users, products, carts, cart_items, orders, seq, inflight>>

(***************************************************************************)
(* Specifications.  Each starts from a populated database and runs the     *)
(* handlers of one part of the API.                                        *)
(***************************************************************************)
Empty(user_seq, product_seq, cart_seq) ==
    /\ carts = {[id |-> c, user_id |-> c] : c \in 1..cart_seq}
    /\ cart_items = {}
    /\ orders = {}
    /\ wishlist = {}
    /\ seq = [user |-> user_seq, product |-> product_seq, cart |-> cart_seq,
              cart_item |-> 0, order |-> 0, wishlist |-> 0]
    /\ inflight = EmptyBag
    /\ resp = NoResp

ShopUsers ==
    {[id |-> 1, email |-> "a@x", role |-> "admin"],
     [id |-> 2, email |-> "b@x", role |-> "customer"]}

ShopProducts ==
    {[id |-> 1, seller_id |-> None, price |-> 1],
     [id |-> 2, seller_id |-> None, price |-> 2]}

\* the administrator alone, before anybody registers
InitUsers ==
    /\ users = {[id |-> 1, email |-> "a@x", role |-> "admin"]}
    /\ products = {}
    /\ Empty(1, 0, 0)

NextUsers ==
    \/ \E e \in EmailInputs, r \in Roles : create_user(e, r)
    \/ \E req \in BagToSet(inflight) : create_user_insert(req)
    \/ \E cu \in users, u \in UserIds, up \in UserUpdates : update_user(cu, u, up)
    \/ \E cu \in users, u \in UserIds : delete_user(cu, u)
    \/ \E cu \in users, u \in UserIds, up \in UserUpdates : admin_update_user_role(cu, u, up)

SpecUsers == InitUsers /\ [][NextUsers]_vars

CatalogUsers ==
    {[id |-> 1, email |-> "a@x", role |-> "admin"],
     [id |-> 2, email |-> "b@x", role |-> "seller"],
     [id |-> 3, email |-> "c@x", role |-> "seller"],
     [id |-> 4, email |-> "d@x", role |-> "customer"]}

\* an admin, two sellers and a customer, and no product yet
InitCatalog == users = CatalogUsers /\ products = {} /\ Empty(4, 0, 0)

ProductBodies == [seller_id : {None, 2}, price : Prices]

NextCatalog ==
    \/ \E cu \in users, b \in ProductBodies : create_product(cu, b)
    \/ \E cu \in users, p \in ProductIds, b \in ProductBodies : seller_update_product(cu, p, b)
    \/ \E cu \in users, p \in ProductIds : seller_delete_product(cu, p)
    \/ \E cu \in users, p \in ProductIds : admin_delete_product(cu, p)

SpecCatalog == InitCatalog /\ [][NextCatalog]_vars

\* the shop before any cart exists
InitCart == users = ShopUsers /\ products = ShopProducts /\ Empty(2, 2, 0)

NextCart ==
    \/ \E cu \in users, u \in Ids(users) : get_cart(cu, u)
    \/ \E req \in BagToSet(inflight) : get_cart_create(req)
    \/ \E cu \in users, u \in Ids(users), p \in Ids(products), q \in Quantities :
          add_item_to_cart(cu, u, p, q)
    \/ \E req \in BagToSet(inflight) : add_item_to_cart_create(req)

SpecCart == InitCart /\ [][NextCart]_vars

NextItems ==
    \/ \E cu \in users, u \in Ids(users), p \in Ids(products), q \in Quantities :
          add_item_to_cart(cu, u, p, q)
    \/ \E req \in BagToSet(inflight) : add_item_to_cart_create(req)
    \/ \E cu \in users, i \in 1..MaxItemId, q \in Quantities : update_cart_item(cu, i, q)
    \/ \E cu \in users, i \in 1..MaxItemId : delete_cart_item(cu, i)
    \/ \E cu \in users, p \in Ids(products) : add_to_wishlist_endpoint(cu, p)
    \/ \E cu \in users, w \in 1..MaxWishId : remove_wishlist_endpoint(cu, w)

SpecItems == InitCart /\ [][NextItems]_vars

\* the shop after both users have opened their carts
InitOrders == users = ShopUsers /\ products = ShopProducts /\ Empty(2, 2, 2)

NextOrders ==
    \/ \E cu \in users, u \in Ids(users), p \in Ids(products), q \in Quantities :
          add_item_to_cart(cu, u, p, q)
    \/ \E cu \in users, u \in Ids(users) : create_order_from_cart(cu, u)
    \/ \E req \in BagToSet(inflight) : create_order_commit(req)
    \/ \E cu \in users, u \in Ids(users) : get_orders(cu, u)

SpecOrders == InitOrders /\ [][NextOrders]_vars

(***************************************************************************)
(* Properties                                                              *)
(***************************************************************************)
Owner(item) == CartById(item.cart_id).user_id

CartRowsIn(cart_table, item_table, user_id) ==
    {i \in item_table : \E c \in cart_table : c.id = i.cart_id /\ c.user_id = user_id}

Permitted(current_user, user_id) == ~NotOwnerNorAdmin(user_id, current_user)

\* C1: a step taken for a requester who is not an admin leaves every cart item and
\* every wishlist entry of the other users exactly as it was
C1_OnlyOwnerOrAdminModifies ==
    [][\A cu \in users :
          (resp'.op # "none" /\ resp'.cu = cu.id /\ cu.role # "admin") =>
             /\ \A i \in cart_items : Owner(i) # cu.id => i \in cart_items'
             /\ \A w \in wishlist : w.user_id # cu.id => w \in wishlist']_vars

\* C2: a permitted POST /orders/ for a user whose cart holds items takes those items
\* as the order's snapshot; the commit adds exactly one order with the snapshot's
\* line items for that user and leaves the user's cart empty; and no order exists
\* while a row it was made from is still in a cart
C2_OrderEmptiesCart ==
    /\ [][\A cu \in users, u \in Ids(users) :
             (create_order_from_cart(cu, u) /\ Permitted(cu, u) /\ CartRows(u) # {}) =>
                inflight' = inflight (+) SetToBag({Request("create_order", cu.id, u,
                                                           CartRows(u))})]_vars
    /\ [][\A req \in BagToSet(inflight) :
             create_order_commit(req) =>
                /\ CartRowsIn(carts', cart_items', req.arg) = {}
                /\ \E o \in orders' \ orders :
                      /\ orders' = orders \cup {o}
                      /\ o.user_id = req.arg
                      /\ o.items = LineItems(req.body)]_vars
    /\ [](\A o \in orders : o.src \cap Ids(cart_items) = {})

\* C3: a permitted POST /orders/ made while the named user's cart is empty is
\* answered 400 at once and creates no order, and no order without items exists
C3_EmptyCartIsBadRequest ==
    /\ [][\A cu \in users, u \in Ids(users) :
             (create_order_from_cart(cu, u) /\ Permitted(cu, u) /\ CartRows(u) = {}) =>
                /\ resp'.op = "create_order"
                /\ resp'.status = 400
                /\ inflight' = inflight
                /\ orders' = orders]_vars
    /\ [](\A o \in orders : o.items # {})

C5_OneRowPerProduct ==
    /\ [](\A i, j \in cart_items :
             (i.cart_id = j.cart_id /\ i.product_id = j.product_id) => i.id = j.id)
    /\ [][\A cu \in users, u \in Ids(users), p \in Ids(products), q \in Quantities :
             LET held == {i \in CartRows(u) : i.product_id = p}
             IN  (add_item_to_cart(cu, u, p, q) /\ Permitted(cu, u) /\ held # {}) =>
                    {i \in CartRowsIn(carts', cart_items', u) : i.product_id = p}
                       = {[i EXCEPT !.quantity = @ + q] : i \in held}]_vars

\* C6: PUT and DELETE /seller/products/{P} by a seller who is not P's seller are
\* answered 404, as for a product that does not exist, and leave the products as
\* they were; an admin's PUT updates P and an admin's DELETE removes it
C6_OtherSellersProductIsNotFound ==
    [][\A t \in users :
          (resp'.op \in {"seller_update_product", "seller_delete_product"}
           /\ resp'.cu = t.id) =>
             /\ (get_current_seller(t) /\ resp'.arg \notin Ids(products)) =>
                   resp'.status = 404 /\ products' = products
             /\ \A p \in products :
                   resp'.arg = p.id =>
                      /\ (t.role = "seller" /\ p.seller_id \notin {None, t.id}) =>
                            resp'.status = 404 /\ products' = products
                      /\ (t.role = "admin" /\ resp'.op = "seller_update_product") =>
                            /\ resp'.status = 200
                            /\ resp'.body.id = p.id
                            /\ resp'.body.seller_id = p.seller_id
                            /\ products' = (products \ {p}) \cup {resp'.body}
                      /\ (t.role = "admin" /\ resp'.op = "seller_delete_product") =>
                            /\ resp'.status = 200
                            /\ products' = products \ {p}]_vars

\* C6 witness: a seller's PUT or DELETE on another seller's product was answered 404
C6_Witness ==
    /\ resp.op \in {"seller_update_product", "seller_delete_product"}
    /\ resp.status = 404
    /\ \E t \in users, p \in products :
          /\ t.id = resp.cu
          /\ t.role = "seller"
          /\ p.id = resp.arg
          /\ p.seller_id \notin {None, t.id}

\* C7: each user has at most one cart
C7_OneCartPerUser == \A c, d \in carts : c.user_id = d.user_id => c.id = d.id

\* C7 witness: a request found no cart, another request created the cart before
\* this one's lazy creation, and the creation was refused
C7_Witness ==
    /\ resp.op \in {"get_cart", "add_item_to_cart"}
    /\ resp.status = 500
    /\ \E c \in carts : c.user_id = CartOwner(resp.arg, resp.cu)

\* C8: order creation is not serialized per cart: a permitted POST /orders/ can read
\* a cart that holds items whatever requests are in flight on that cart, and a
\* request that has read a cart can commit its order whatever became of the cart
C8_OrdersNotSerialized ==
    /\ \A cu \in users, u \in Ids(users) :
          (Permitted(cu, u) /\ CartRows(OrderOwner(u, cu.id)) # {}
           /\ InFlightCount < MaxInFlight) =>
             ENABLED (create_order_from_cart(cu, u) /\ inflight' # inflight)
    /\ \A req \in BagToSet(inflight) :
          (req.op = "create_order" /\ seq["order"] < MaxOrderId) =>
             ENABLED create_order_commit(req)

\* C8 witness: two orders made from the same rows of one cart
C8_Witness ==
    \E o1, o2 \in orders : o1.id # o2.id /\ o1.src = o2.src /\ o1.src # {}

\* C9: a user-scoped request that passes the ownership check works on the cart and
\* the orders of the user_id it names
C9_ActsOnNamedUser ==
    /\ (resp.op = "get_cart" /\ resp.status = 200) => resp.body = resp.arg
    /\ (resp.op = "add_item_to_cart" /\ resp.status = 200) =>
          CartById(resp.body.cart_id).user_id = resp.arg
    /\ (resp.op = "create_order" /\ resp.status = 200) => resp.body = resp.arg
    /\ (resp.op = "get_orders" /\ resp.status = 200) =>
          resp.body = Ids(crud_get_orders(resp.arg))

\* C10: a user's role changes only in a step taken for a requester whose role is
\* admin, and only to customer, seller or admin
C10_RoleChangesOnlyByAdmin ==
    [][\A u \in users, v \in users' :
          (u.id = v.id /\ u.role # v.role) =>
             /\ \E a \in users : a.id = resp'.cu /\ a.role = "admin"
             /\ v.role \in Roles]_vars
====
